---- MODULE Spec2Model ----
(***************************************************************************)
(* Model of src/index.tsx: the reference-image store, the upload boxes,    *)
(* the selection resolver, the prompt composer, the generation client and  *)
(* the gallery renderer of the image generation page.                      *)
(*                                                                         *)
(* Strings that the code builds or takes apart are sequences of tokens     *)
(* (TLA+ strings); concatenation is \o on sequences.                       *)
(***************************************************************************)
EXTENDS Integers, Sequences, FiniteSets, TLC

(* ------------------------------ bounds -------------------------------- *)

\* File choices (change events of the file inputs) in one behaviour of the
\* whole page.
MaxReads == 3

\* File choices in one behaviour of the store alone.
MaxStoreReads == 2

(* ------------------------------ slots --------------------------------- *)

\* The ids `char${i}`, i = 1..4, of the character slots, in loop order.
CharIds == <<"char1", "char2", "char3", "char4">>

bgId == "bg"

CharSlots == {CharIds[i] : i \in DOMAIN CharIds}

Slots == CharSlots \cup {bgId}

\* id.startsWith('char')
IsChar(id) == id \in CharSlots

\* The JavaScript null of an empty slot.
null == [isNull |-> TRUE]

\* The JavaScript undefined, as an object and in a string position.
undefined == [isUndefined |-> TRUE]

undefinedStr == <<"#undefined">>

\* A falsy string operand of || and of filter(p => p.text).
Falsy(str) == str = undefinedStr \/ str = <<>>

PngFile == [type |-> <<"image", "/", "png">>, data |-> <<"QUFB">>]

JpegFile == [type |-> <<"image", "/", "jpeg">>, data |-> <<"QkJC">>]

\* The files the user picks from, told apart by content.
Files == {PngFile, JpegFile}

VARIABLES
  referenceImages,  \* slot id -> ReferenceImage or null
  checkbox,         \* character slot id -> checkbox-<id>.checked
  previewSrc,       \* slot id -> preview-<id>.src, a data URL or <<>>
  hasImage,         \* slot id -> the wrapper carries class has-image
  fileInput,        \* slot id -> file-input-<id>.files
  pendingReads,     \* FileReaders whose read is outstanding, in start order
  nReads,           \* file choices so far (counted to bound them)
  disabled,         \* generate-button.disabled
  gallery,          \* the child nodes of image-gallery
  calls             \* the activations of generateAndDisplayImages

storeVars ==
  <<referenceImages, checkbox, previewSrc, hasImage, fileInput,
    pendingReads, nReads>>

genVars == <<disabled, gallery, calls>>

vars == <<storeVars, genVars>>

(* --------------------------- string helpers --------------------------- *)

RECURSIVE SplitAt(_, _, _)
\* s.split(sep) on tokens: the pieces of s between the sep tokens; cur is the
\* piece being collected.
SplitAt(s, sep, cur) ==
  IF s = <<>> THEN <<cur>>
  ELSE IF Head(s) = sep THEN <<cur>> \o SplitAt(Tail(s), sep, <<>>)
  ELSE SplitAt(Tail(s), sep, Append(cur, Head(s)))

split(s, sep) == SplitAt(s, sep, <<>>)

\* The first position of token t in s at or after position from, 0 when none.
IndexOf(s, t, from) ==
  IF \E k \in from..Len(s) : s[k] = t
  THEN CHOOSE k \in from..Len(s) : s[k] = t /\ \A j \in from..(k - 1) : s[j] # t
  ELSE 0

\* header.match(/:(.*?);/)?.[1]: the tokens between the first ":" and the
\* first ";" after it; <<>> stands for no match and for an empty group, which
\* the code's || treats alike.
matchMime(header) ==
  LET c == IndexOf(header, ":", 1)
      e == IF c = 0 THEN 0 ELSE IndexOf(header, ";", c + 1)
  IN IF e = 0 THEN <<>> ELSE SubSeq(header, c + 1, e - 1)

\* FileReader.readAsDataURL: data:<type>;base64,<payload>
readAsDataURL(file) ==
  <<"data", ":">> \o file.type \o <<";", "base64", ",">> \o file.data

\* The object literal { base64, mimeType } of reader.onload, stored under id.
\* ref names the object: every load allocates a new one, and the objects the
\* store can reach are told apart by the slot that holds them.
decodeDataUrl(dataUrl, id) ==
  LET pieces == split(dataUrl, ",")
      header == pieces[1]
      base64 == IF Len(pieces) >= 2 THEN pieces[2] ELSE undefinedStr
      m      == matchMime(header)
  IN [ref |-> id,
      base64 |-> base64,
      mimeType |-> IF m = <<>> THEN <<"image", "/", "png">> ELSE m]

(* ------------------------------- Init --------------------------------- *)

Init ==
  /\ referenceImages = [id \in Slots |-> null]
  /\ checkbox = [id \in CharSlots |-> FALSE]
  /\ previewSrc = [id \in Slots |-> <<>>]
  /\ hasImage = [id \in Slots |-> FALSE]
  /\ fileInput = [id \in Slots |-> <<>>]
  /\ pendingReads = <<>>
  /\ nReads = 0
  /\ disabled = FALSE
  /\ gallery = <<>>
  /\ calls = <<>>

\* The event loop dispatches an event or a callback only when no handler is
\* running: no activation is between its first statement and its await.
StackEmpty == \A k \in DOMAIN calls : calls[k].at # "call"

(* ------------------------------ uploads ------------------------------- *)

RemoveAt(s, i) == SubSeq(s, 1, i - 1) \o SubSeq(s, i + 1, Len(s))

\* change event of file-input-<id> with a chosen file: a FileReader starts.
\* With no file chosen the handler returns at once.
handleFileChange(id, file) ==
  /\ StackEmpty
  /\ fileInput' = [fileInput EXCEPT ![id] = <<file>>]
  /\ pendingReads' = Append(pendingReads, [id |-> id, file |-> file])
  /\ nReads' = nReads + 1
  /\ UNCHANGED <<referenceImages, checkbox, previewSrc, hasImage, genVars>>

\* readerOnload that also checks the checkbox of a character slot.
readerOnloadChecks(i) ==
  LET id      == pendingReads[i].id
      dataUrl == readAsDataURL(pendingReads[i].file)
  IN /\ StackEmpty
     /\ previewSrc' = [previewSrc EXCEPT ![id] = dataUrl]
     /\ referenceImages' =
          [referenceImages EXCEPT ![id] = decodeDataUrl(dataUrl, id)]
     /\ hasImage' = [hasImage EXCEPT ![id] = TRUE]
     /\ checkbox' = IF IsChar(id) THEN [checkbox EXCEPT ![id] = TRUE]
                    ELSE checkbox
     /\ pendingReads' = RemoveAt(pendingReads, i)
     /\ UNCHANGED <<fileInput, nReads, genVars>>

\* reader.onload of the i-th outstanding read.
readerOnload(i) ==
  LET id      == pendingReads[i].id
      dataUrl == readAsDataURL(pendingReads[i].file)
  IN /\ StackEmpty
     /\ previewSrc' = [previewSrc EXCEPT ![id] = dataUrl]
     /\ referenceImages' =
          [referenceImages EXCEPT ![id] = decodeDataUrl(dataUrl, id)]
     /\ hasImage' = [hasImage EXCEPT ![id] = TRUE]
     /\ pendingReads' = RemoveAt(pendingReads, i)
     /\ UNCHANGED <<checkbox, fileInput, nReads, genVars>>

\* readerError with an error handler that empties the slot.
readerErrorClears(i) ==
  /\ StackEmpty
  /\ pendingReads' = RemoveAt(pendingReads, i)
  /\ referenceImages' = [referenceImages EXCEPT ![pendingReads[i].id] = null]
  /\ UNCHANGED <<checkbox, previewSrc, hasImage, fileInput, nReads, genVars>>

\* The i-th outstanding read fails: the reader has no error handler, so no
\* code of the page runs.
readerError(i) ==
  /\ StackEmpty
  /\ pendingReads' = RemoveAt(pendingReads, i)
  /\ UNCHANGED <<referenceImages, checkbox, previewSrc, hasImage, fileInput,
                 nReads, genVars>>

\* handleRemoveImage without the last block: the checkbox stays as it is.
removeKeepsCheckbox(id) ==
  /\ StackEmpty
  /\ referenceImages' = [referenceImages EXCEPT ![id] = null]
  /\ previewSrc' = [previewSrc EXCEPT ![id] = <<>>]
  /\ fileInput' = [fileInput EXCEPT ![id] = <<>>]
  /\ hasImage' = [hasImage EXCEPT ![id] = FALSE]
  /\ UNCHANGED <<checkbox, pendingReads, nReads, genVars>>

handleRemoveImage(id) ==
  /\ StackEmpty
  /\ referenceImages' = [referenceImages EXCEPT ![id] = null]
  /\ previewSrc' = [previewSrc EXCEPT ![id] = <<>>]
  /\ fileInput' = [fileInput EXCEPT ![id] = <<>>]
  /\ hasImage' = [hasImage EXCEPT ![id] = FALSE]
  /\ checkbox' = IF IsChar(id) THEN [checkbox EXCEPT ![id] = FALSE]
                 ELSE checkbox
  /\ UNCHANGED <<pendingReads, nReads, genVars>>

\* The user clicks checkbox-<id>: the browser flips it, no handler is wired.
toggleCheckbox(id) ==
  /\ StackEmpty
  /\ checkbox' = [checkbox EXCEPT ![id] = ~checkbox[id]]
  /\ UNCHANGED <<referenceImages, previewSrc, hasImage, fileInput,
                 pendingReads, nReads, genVars>>

(* ------------------------- selection resolver ------------------------- *)

RECURSIVE presentCharacters(_)
\* checkedCharacters without the test of the checkbox.
presentCharacters(i) ==
  IF i > Len(CharIds) THEN <<>>
  ELSE (IF referenceImages[CharIds[i]] # null
        THEN <<referenceImages[CharIds[i]]>> ELSE <<>>)
       \o presentCharacters(i + 1)

RECURSIVE checkedCharacters(_)
\* The loop of getSelectedImages from i up to 4.
checkedCharacters(i) ==
  IF i > Len(CharIds) THEN <<>>
  ELSE LET id == CharIds[i]
       IN (IF checkbox[id] /\ referenceImages[id] # null
           THEN <<referenceImages[id]>> ELSE <<>>)
          \o checkedCharacters(i + 1)

\* getSelectedImages with the background pushed after the characters.
backgroundLast ==
  checkedCharacters(1)
  \o (IF referenceImages[bgId] # null THEN <<referenceImages[bgId]>> ELSE <<>>)

getSelectedImages ==
  (IF referenceImages[bgId] # null THEN <<referenceImages[bgId]>> ELSE <<>>)
  \o checkedCharacters(1)

(* --------------------------- prompt composer -------------------------- *)

\* The sample prompt put in the prompt field at startup; its em dash, which a
\* TLA+ string cannot hold, is the token "U+2014".
originalPrompt ==
  <<"Editorial wildlife photograph: a sleek black panther standing regally on a reflective salt flat at dusk, wearing a dramatic, sculptural couture gown inspired by organic forms. The landscape is vast and otherworldly but grounded in reality, with subtle shimmering textures and a warm, golden-hour glow. Captured with a cinematic 35mm lens, shallow depth of field, natural shadows, and authentic fur and fabric textures",
    "U+2014",
    "evoking a high-fashion magazine cover with a surreal, yet believable, atmosphere.">>

\* What the prompt field can hold at submit: the sample prompt or "P".
Prompts == {originalPrompt, <<"P">>}

\* The values of the aspect ratio selector.
AspectRatio == {"1:1", "16:9", "9:16", "4:3", "3:4"}

\* The ratios the user submits with.
ChosenRatios == {r \in AspectRatio : r \in {"1:1", "16:9"}}

bgInstruction ==
  <<"Use the first provided image as the main background. Critically, you must remove any people from this image, using only the scenery as the background for the final composition.">>

integrateInstruction(numCharacters, charText) ==
  <<"Integrate the ", ToString(numCharacters), " ", charText,
    " from the other reference images into the background scene.">>

combineInstruction(numCharacters, charText) ==
  <<"Combine the ", ToString(numCharacters), " ", charText,
    " from the reference images into a single cohesive scene based on the text prompt.">>

onceInstruction ==
  <<"Crucially, ensure each distinct character appears only once in the final image and that no characters are omitted or duplicated.">>

RECURSIVE join(_, _)
\* strs.join(sep) for a sequence of strings.
join(strs, sep) ==
  IF strs = <<>> THEN <<>>
  ELSE IF Len(strs) = 1 THEN strs[1]
  ELSE strs[1] \o sep \o join(Tail(strs), sep)

\* hasBgOf taking the first selected image for the background, whichever
\* slot it comes from.
firstIsBackground(selectedImages) == Len(selectedImages) > 0

hasBgOf(selectedImages) ==
  Len(selectedImages) > 0 /\ referenceImages[bgId] = selectedImages[1]

numCharactersOf(selectedImages) ==
  IF hasBgOf(selectedImages) THEN Len(selectedImages) - 1
  ELSE Len(selectedImages)

\* instructionsOf with the background instruction pushed last.
backgroundInstructionLast(selectedImages) ==
  LET hasBg         == hasBgOf(selectedImages)
      numCharacters == numCharactersOf(selectedImages)
      charText      == IF numCharacters = 1 THEN "character" ELSE "characters"
  IN (IF numCharacters > 0
      THEN <<IF hasBg THEN integrateInstruction(numCharacters, charText)
             ELSE combineInstruction(numCharacters, charText),
             onceInstruction>>
      ELSE <<>>)
     \o (IF hasBg THEN <<bgInstruction>> ELSE <<>>)

\* instructionsOf giving the character instructions for several characters
\* only.
instructionsForSeveral(selectedImages) ==
  LET hasBg         == hasBgOf(selectedImages)
      numCharacters == numCharactersOf(selectedImages)
      charText      == IF numCharacters = 1 THEN "character" ELSE "characters"
  IN (IF hasBg THEN <<bgInstruction>> ELSE <<>>)
     \o (IF numCharacters > 1
         THEN <<IF hasBg THEN integrateInstruction(numCharacters, charText)
                ELSE combineInstruction(numCharacters, charText),
                onceInstruction>>
         ELSE <<>>)

\* instructionsOf with the plural noun for every number of characters.
alwaysPlural(selectedImages) ==
  LET hasBg         == hasBgOf(selectedImages)
      numCharacters == numCharactersOf(selectedImages)
      charText      == "characters"
  IN (IF hasBg THEN <<bgInstruction>> ELSE <<>>)
     \o (IF numCharacters > 0
         THEN <<IF hasBg THEN integrateInstruction(numCharacters, charText)
                ELSE combineInstruction(numCharacters, charText),
                onceInstruction>>
         ELSE <<>>)

\* The instructions array built for a non-empty selection.
instructionsOf(selectedImages) ==
  LET hasBg         == hasBgOf(selectedImages)
      numCharacters == numCharactersOf(selectedImages)
      charText      == IF numCharacters = 1 THEN "character" ELSE "characters"
  IN (IF hasBg THEN <<bgInstruction>> ELSE <<>>)
     \o (IF numCharacters > 0
         THEN <<IF hasBg THEN integrateInstruction(numCharacters, charText)
                ELSE combineInstruction(numCharacters, charText),
                onceInstruction>>
         ELSE <<>>)

briefOpen == "\n\nHere is the creative brief: \""

ratioOpen == "\n\nFinally, the image must have a "

ratioClose == " aspect ratio."

finalPromptOf(selectedImages, prompt, aspectRatio) ==
  LET instructions == instructionsOf(selectedImages)
      wrapped == IF Len(instructions) > 0
                 THEN join(instructions, <<" ">>) \o <<briefOpen>> \o prompt
                      \o <<"\"">>
                 ELSE prompt
  IN wrapped \o <<ratioOpen, aspectRatio, ratioClose>>

imagePartsOf(selectedImages) ==
  [k \in 1..Len(selectedImages) |->
     [inlineData |-> [data |-> selectedImages[k].base64,
                      mimeType |-> selectedImages[k].mimeType]]]

\* generateContentRequest with the text part put before the image parts.
textPartFirst(selectedImages, prompt, aspectRatio) ==
  [api |-> "generateContent",
   model |-> "gemini-2.5-flash-image-preview",
   parts |-> <<[text |-> finalPromptOf(selectedImages, prompt, aspectRatio)]>>
             \o imagePartsOf(selectedImages),
   responseModalities |-> <<"IMAGE", "TEXT">>]

\* The argument of ai.models.generateContent.
generateContentRequest(selectedImages, prompt, aspectRatio) ==
  [api |-> "generateContent",
   model |-> "gemini-2.5-flash-image-preview",
   parts |-> imagePartsOf(selectedImages)
             \o <<[text |-> finalPromptOf(selectedImages, prompt, aspectRatio)]>>,
   responseModalities |-> <<"IMAGE", "TEXT">>]

\* The argument of ai.models.generateImages.
generateImagesRequest(prompt, aspectRatio) ==
  [api |-> "generateImages",
   model |-> "imagen-4.0-generate-001",
   prompt |-> prompt,
   numberOfImages |-> 3,
   aspectRatio |-> aspectRatio,
   outputMimeType |-> <<"image", "/", "jpeg">>]

\* requestOf branching on the stored background instead of the selection.
requestByBackground(selectedImages, prompt, aspectRatio) ==
  IF referenceImages[bgId] # null
  THEN generateContentRequest(selectedImages, prompt, aspectRatio)
  ELSE generateImagesRequest(prompt, aspectRatio)

\* The branch on selectedImages.length > 0.
requestOf(selectedImages, prompt, aspectRatio) ==
  IF Len(selectedImages) > 0
  THEN generateContentRequest(selectedImages, prompt, aspectRatio)
  ELSE generateImagesRequest(prompt, aspectRatio)

(* --------------------------- gallery renderer ------------------------- *)

\* The div that setMessage makes the only child of the gallery.
messageNode(message, isError) ==
  [class |-> IF isError THEN <<"message", "error">> ELSE <<"message">>,
   html |-> message]

setMessage(message, isError) == <<messageNode(message, isError)>>

generatingMessage == <<"Generating images, please wait...">>

noImagesMessage == <<"No images were generated or the response was empty.">>

\* The gallery item displayImages builds for the entry at 0-based index.
galleryItem(generatedImage, index) ==
  LET given    == generatedImage.image.mimeType
      mimeType == IF Falsy(given) THEN <<"image", "/", "jpeg">> ELSE given
      pieces   == split(mimeType, "/")
      fileExtension ==
        IF Len(pieces) >= 2 /\ ~Falsy(pieces[2]) THEN pieces[2] ELSE <<"jpeg">>
      src == <<"data:">> \o mimeType \o <<";base64,">>
             \o generatedImage.image.imageBytes
  IN [class |-> <<"gallery-item">>,
      src |-> src,
      alt |-> <<"Generated Image ", ToString(index + 1)>>,
      href |-> src,
      download |-> <<"generated-image-", ToString(index + 1), ".">>
                   \o fileExtension,
      ariaLabel |-> <<"Download image ", ToString(index + 1)>>]

\* generatedImage.image?.imageBytes is truthy.
hasBytes(generatedImage) ==
  /\ generatedImage.image # undefined
  /\ ~Falsy(generatedImage.image.imageBytes)

\* appendItems numbering the items by their place in the gallery.
appendItemsRenumbered(list, index) ==
  LET shown == SelectSeq(list, hasBytes)
  IN [n \in 1..Len(shown) |-> galleryItem(shown[n], index + n - 1)]

RECURSIVE appendItems(_, _)
\* The forEach of displayImages from 0-based index on.
appendItems(list, index) ==
  IF index >= Len(list) THEN <<>>
  ELSE (IF hasBytes(list[index + 1])
        THEN <<galleryItem(list[index + 1], index)>> ELSE <<>>)
       \o appendItems(list, index + 1)

\* displayImages without the test for an empty list.
displayImagesUnlessUndefined(generatedImages) ==
  IF generatedImages = undefined
  THEN setMessage(noImagesMessage, FALSE)
  ELSE appendItems(generatedImages.list, 0)

\* The children of the gallery after displayImages(generatedImages); the
\* argument is undefined or [list |-> the array].
displayImages(generatedImages) ==
  IF generatedImages = undefined \/ Len(generatedImages.list) = 0
  THEN setMessage(noImagesMessage, FALSE)
  ELSE appendItems(generatedImages.list, 0)

(* -------------------------- generation client ------------------------- *)

\* The parts a composition response can carry.
imagePart ==
  [inlineData |-> [data |-> <<"iVBORw0K">>, mimeType |-> <<"image", "/", "png">>],
   text |-> undefinedStr]

refusalPart ==
  [inlineData |-> undefined, text |-> <<"I cannot create this image.">>]

advicePart ==
  [inlineData |-> undefined, text |-> <<"Try another prompt.">>]

\* The part lists tried: none, images only, text only, text before an image.
PartLists ==
  {<<>>, <<imagePart>>, <<imagePart, imagePart>>, <<refusalPart>>,
   <<refusalPart, advicePart>>, <<refusalPart, imagePart>>}

\* GenerateContentResponse by how much of candidates[0].content.parts exists.
GenerateContentResponses ==
  {[shape |-> "noCandidates"], [shape |-> "noContent"], [shape |-> "noParts"]}
  \cup {[shape |-> "parts", parts |-> ps] : ps \in PartLists}

\* The entries a text-to-image result list can carry: a PNG, an entry with no
\* image (filtered out by the service), and bytes with no MIME type.
pngImage ==
  [image |-> [imageBytes |-> <<"iVBORw0K">>,
              mimeType |-> <<"image", "/", "png">>]]

filteredImage == [image |-> undefined]

untypedImage ==
  [image |-> [imageBytes |-> <<"/9j/4AAQ">>, mimeType |-> undefinedStr]]

\* Bytes whose MIME type has no "/".
opaqueImage ==
  [image |-> [imageBytes |-> <<"R0lGODlh">>, mimeType |-> <<"gif">>]]

\* The result lists tried.
ResultLists ==
  {<<>>, <<pngImage>>, <<untypedImage>>, <<filteredImage>>,
   <<filteredImage, pngImage>>, <<opaqueImage>>,
   <<pngImage, filteredImage, untypedImage>>}

GenerateImagesResponses ==
  {[generatedImages |-> undefined]}
  \cup {[generatedImages |-> [list |-> l]] : l \in ResultLists}

\* What a remote call can throw: an Error with a message, or another value.
ThrownValues ==
  {[isError |-> TRUE, message |-> <<"Failed to fetch">>], [isError |-> FALSE]}

typeError ==
  [isError |-> TRUE,
   message |-> <<"Cannot read properties of undefined (reading 'filter')">>]

\* How the awaited promise of a call to api can settle.
Settlements(api) ==
  {[kind |-> "rejected", reason |-> e] : e \in ThrownValues}
  \cup {[kind |-> "fulfilled", value |-> r] :
          r \in IF api = "generateContent" THEN GenerateContentResponses
                ELSE GenerateImagesResponses}

noImageFallback == <<"No image was generated by the model.">>

genericError ==
  <<"Could not load images. Please check the console for details.">>

Returned(children) == [threw |-> FALSE, gallery |-> children]

Threw(error) == [threw |-> TRUE, error |-> error]

\* response.candidates?.[0]?.content?.parts is reached and is an array.
hasParts(response) == response.shape = "parts"

\* The statements after the await of generateContent, inside the try block.
afterGenerateContent(response) ==
  IF response.shape = "noParts" THEN Threw(typeError)
  ELSE
    LET imagePartsFromResponse ==
          IF hasParts(response)
          THEN SelectSeq(response.parts, LAMBDA p : p.inlineData # undefined)
          ELSE <<>>
        images ==
          [k \in 1..Len(imagePartsFromResponse) |->
             [image |->
                [imageBytes |-> imagePartsFromResponse[k].inlineData.data,
                 mimeType |-> imagePartsFromResponse[k].inlineData.mimeType]]]
        texts ==
          IF hasParts(response)
          THEN SelectSeq(response.parts, LAMBDA p : ~Falsy(p.text))
          ELSE <<>>
        joined == join([k \in 1..Len(texts) |-> texts[k].text], <<" ">>)
        modelTextResponse == IF Falsy(joined) THEN noImageFallback ELSE joined
    IN IF hasParts(response) /\ Len(imagePartsFromResponse) > 0
       THEN Returned(displayImages([list |-> images]))
       ELSE Threw([isError |-> TRUE, message |-> modelTextResponse])

\* The statement after the await of generateImages.
afterGenerateImages(response) ==
  Returned(displayImages(response.generatedImages))

\* The try block from the await on, for a call to api that settled.
tryBlock(api, settled) ==
  IF settled.kind = "rejected" THEN Threw(settled.reason)
  ELSE IF api = "generateContent" THEN afterGenerateContent(settled.value)
  ELSE afterGenerateImages(settled.value)

\* catchBlock appending the error to the gallery instead of replacing it.
catchAppends(error) ==
  gallery \o <<messageNode(<<"Error: ">> \o
                 (IF error.isError THEN error.message ELSE genericError), TRUE)>>

\* The catch block: the children of the gallery after setMessage.
catchBlock(error) ==
  LET errorMessage == IF error.isError THEN error.message ELSE genericError
  IN setMessage(<<"Error: ">> \o errorMessage, TRUE)

\* The handler without generateBtn.disabled = true.
leftEnabled == FALSE

\* The handler without its finally block.
leftDisabled == TRUE

\* generate-button.disabled after the first statements of the handler.
disabledAtStart == TRUE

\* generate-button.disabled after the finally block.
disabledAtEnd == FALSE

\* click on generate-button: the handler runs up to its await and issues the
\* remote call. A disabled button dispatches no click.
generateAndDisplayImages(prompt, aspectRatio) ==
  /\ StackEmpty
  /\ ~disabled
  /\ disabled' = disabledAtStart
  /\ gallery' = setMessage(generatingMessage, FALSE)
  /\ calls' = Append(calls,
       [at |-> "call",
        request |-> requestOf(getSelectedImages, prompt, aspectRatio)])
  /\ UNCHANGED storeVars

\* The k-th activation suspends at its await: the call is with the client
\* library and the arguments built for it are not used again.
awaitResponse(k) ==
  /\ calls[k].at = "call"
  /\ calls' = [calls EXCEPT ![k] = [at |-> "await", api |-> calls[k].request.api]]
  /\ UNCHANGED <<storeVars, disabled, gallery>>

\* The promise of the k-th activation settles and the handler runs to its end:
\* the rest of the try block, the catch block if it threw, the finally block.
resumeAfterAwait(k, settled) ==
  LET result == tryBlock(calls[k].api, settled)
  IN /\ StackEmpty
     /\ calls[k].at = "await"
     /\ gallery' = IF result.threw THEN catchBlock(result.error)
                   ELSE result.gallery
     /\ disabled' = disabledAtEnd
     /\ calls' = RemoveAt(calls, k)
     /\ UNCHANGED storeVars

(* ------------------------------- Next --------------------------------- *)

\* The store and its upload boxes alone: every slot, both files.
NextStore ==
  \/ \E id \in Slots, file \in Files :
       nReads < MaxStoreReads /\ handleFileChange(id, file)
  \/ \E i \in DOMAIN pendingReads : readerOnload(i)
  \/ \E i \in DOMAIN pendingReads : readerError(i)
  \/ \E id \in Slots : handleRemoveImage(id)
  \/ \E id \in CharSlots : toggleCheckbox(id)

SpecStore == Init /\ [][NextStore]_vars

Suspend == \E k \in DOMAIN calls : awaitResponse(k)

Settle ==
  \E k \in DOMAIN calls :
    calls[k].at = "await" /\ \E settled \in Settlements(calls[k].api) :
      resumeAfterAwait(k, settled)

\* The slots the user works with on the whole page.
UsedSlots == {bgId, CharIds[1], CharIds[3]}

\* The whole page; the user picks the PNG for the slots of UsedSlots.
Next ==
  \/ \E id \in UsedSlots : nReads < MaxReads /\ handleFileChange(id, PngFile)
  \/ \E i \in DOMAIN pendingReads : readerOnload(i)
  \/ \E i \in DOMAIN pendingReads : readerError(i)
  \/ \E id \in UsedSlots : handleRemoveImage(id)
  \/ \E id \in UsedSlots \cap CharSlots : toggleCheckbox(id)
  \/ \E prompt \in Prompts, aspectRatio \in ChosenRatios :
       generateAndDisplayImages(prompt, aspectRatio)
  \/ Suspend
  \/ Settle

Spec == Init /\ [][Next]_vars

\* A handler that reached its await suspends, and the remote call returns or
\* throws in the end.
FairSpec == Spec /\ WF_vars(Suspend) /\ WF_vars(Settle)

\* The file the user picks for slot id when every slot gets its own file: a
\* JPEG for the background and PNGs for the characters, each with a payload of
\* its own (the payload token is the slot id).
SlotFile(id) ==
  [type |-> IF id = bgId THEN JpegFile.type ELSE PngFile.type, data |-> <<id>>]

\* The page once the user has filled the slots of some set, each with its own
\* file, every read has completed, and any checkboxes are checked.
InitLoaded ==
  /\ \E filled \in SUBSET Slots :
       /\ referenceImages =
            [id \in Slots |->
               IF id \in filled
               THEN decodeDataUrl(readAsDataURL(SlotFile(id)), id) ELSE null]
       /\ previewSrc =
            [id \in Slots |->
               IF id \in filled THEN readAsDataURL(SlotFile(id)) ELSE <<>>]
       /\ hasImage = [id \in Slots |-> id \in filled]
       /\ fileInput =
            [id \in Slots |-> IF id \in filled THEN <<SlotFile(id)>> ELSE <<>>]
       /\ nReads = Cardinality(filled)
  /\ checkbox \in [CharSlots -> BOOLEAN]
  /\ pendingReads = <<>>
  /\ disabled = FALSE
  /\ gallery = <<>>
  /\ calls = <<>>

\* Submitting from a loaded page: the user checks and unchecks characters and
\* submits; every slot can be filled.
NextSubmit ==
  \/ \E id \in CharSlots : toggleCheckbox(id)
  \/ \E prompt \in Prompts, aspectRatio \in ChosenRatios :
       generateAndDisplayImages(prompt, aspectRatio)
  \/ Suspend
  \/ Settle

SpecSubmit == InitLoaded /\ [][NextSubmit]_vars

\* The store when every read succeeds.
NextReads ==
  \/ \E id \in Slots, file \in Files :
       nReads < MaxStoreReads /\ handleFileChange(id, file)
  \/ \E i \in DOMAIN pendingReads : readerOnload(i)
  \/ \E id \in Slots : handleRemoveImage(id)
  \/ \E id \in CharSlots : toggleCheckbox(id)

SpecReads == Init /\ [][NextReads]_vars

(* ------------------------------ properties ---------------------------- *)

\* The positions of the selection that hold the object stored under id.
PositionsOf(selected, id) ==
  {k \in DOMAIN selected : selected[k].ref = id}

Present(id) == referenceImages[id] # null

\* The outstanding reads of slot id.
ReadsOf(id) == {i \in DOMAIN pendingReads : pendingReads[i].id = id}

\* C1: in every reachable state the selection starts with the stored
\* background image exactly when the bg slot is present, whatever the
\* checkboxes are, and the background is at no other position.
C1_BackgroundFirst ==
  LET selected == getSelectedImages
  IN /\ Present(bgId) <=>
          (Len(selected) > 0 /\ selected[1] = referenceImages[bgId])
     /\ PositionsOf(selected, bgId) \subseteq {1}
     /\ ~Present(bgId) => PositionsOf(selected, bgId) = {}

\* The background is selected together with a checked character, while
\* another checkbox is checked on an empty slot.
C1_Witness ==
  /\ Present(bgId)
  /\ Len(getSelectedImages) >= 2
  /\ \E id \in CharSlots : checkbox[id] /\ ~Present(id)

\* C2: a character slot is in the selection exactly when its checkbox is
\* checked and it holds an image; it is there once, with the stored image,
\* after the background, and the included slots are in increasing slot order.
C2_CharactersSelected ==
  LET selected == getSelectedImages
  IN /\ \A i \in DOMAIN CharIds :
          LET id == CharIds[i]
          IN /\ (PositionsOf(selected, id) # {}) <=> (checkbox[id] /\ Present(id))
             /\ Cardinality(PositionsOf(selected, id)) <= 1
             /\ \A k \in PositionsOf(selected, id) :
                  /\ selected[k] = referenceImages[id]
                  /\ Present(bgId) => k > 1
     /\ \A i, j \in DOMAIN CharIds :
          \A k \in PositionsOf(selected, CharIds[i]),
             l \in PositionsOf(selected, CharIds[j]) : i < j => k < l
     /\ \A k \in DOMAIN selected : selected[k].ref \in Slots

\* Two characters are selected, char3 is checked but empty.
C2_Witness ==
  /\ checkbox["char1"] /\ Present("char1")
  /\ checkbox["char4"] /\ Present("char4")
  /\ checkbox["char3"] /\ ~Present("char3")
  /\ Len(getSelectedImages) = 2

\* C6: a step of handleRemoveImage on s leaves s absent with its preview
\* cleared, unchecks s when it is a character slot, and the selection computed
\* in the state it leaves holds no image of s.
C6_RemoveClears ==
  [][\A s \in Slots :
       handleRemoveImage(s) =>
         /\ referenceImages'[s] = null
         /\ previewSrc'[s] = <<>>
         /\ ~hasImage'[s]
         /\ IsChar(s) => ~checkbox'[s]
         /\ PositionsOf(getSelectedImages', s) = {}]_vars

\* Files were chosen and every file input is empty again, so each slot a
\* file was chosen for has been removed since; the store is empty and the
\* checkboxes are unchecked.
C6_Witness ==
  /\ nReads > 0
  /\ pendingReads = <<>>
  /\ \A id \in Slots : fileInput[id] = <<>> /\ ~Present(id) /\ previewSrc[id] = <<>>
  /\ \A id \in CharSlots : ~checkbox[id]

\* C7: a step in which an outstanding read fails leaves every slot of the
\* store and every checkbox as it was.
C7_FailedReadKeepsStore ==
  [][\A i \in DOMAIN pendingReads :
       readerError(i) =>
         /\ referenceImages' = referenceImages
         /\ checkbox' = checkbox
         /\ previewSrc' = previewSrc]_vars

\* A file was chosen for an empty slot, its read is no longer outstanding and
\* the slot is still absent: the read failed. Another slot holds its image.
C7_Witness ==
  \E s, t \in Slots :
    /\ fileInput[s] # <<>> /\ ReadsOf(s) = {} /\ ~Present(s)
    /\ fileInput[t] # <<>> /\ ReadsOf(t) = {} /\ Present(t)

\* The string str has token among its tokens.
Contains(str, token) == \E n \in DOMAIN str : str[n] = token

\* The inline-binary parts a composition response carries.
InlineParts(response) ==
  IF response.shape = "parts"
  THEN SelectSeq(response.parts, LAMBDA p : p.inlineData # undefined)
  ELSE <<>>

\* The texts of the text parts a composition response carries.
TextParts(response) ==
  IF response.shape = "parts"
  THEN LET ts == SelectSeq(response.parts, LAMBDA p : p.text # undefinedStr)
       IN [n \in DOMAIN ts |-> ts[n].text]
  ELSE <<>>

Fulfilled(response) == [kind |-> "fulfilled", value |-> response]

\* The request failed: the call threw, or a composition response came back
\* without an inline-binary part.
Failed(api, settled) ==
  \/ settled.kind = "rejected"
  \/ api = "generateContent" /\ Len(InlineParts(settled.value)) = 0

ErrorNode(message) ==
  [class |-> <<"message", "error">>, html |-> <<"Error: ">> \o message]

\* C3: a submit issues one call; it is the composition call when the
\* selection is non-empty and the text-to-image call when it is empty, then
\* with the prompt exactly as typed and 3 images requested.
C3_ModeBySelection ==
  [][\A prompt \in Prompts, aspectRatio \in ChosenRatios :
       generateAndDisplayImages(prompt, aspectRatio) =>
         /\ Len(calls') = Len(calls) + 1
         /\ LET request == calls'[Len(calls')].request
            IN IF Len(getSelectedImages) > 0
               THEN request.api = "generateContent"
               ELSE /\ request.api = "generateImages"
                    /\ request.prompt = prompt
                    /\ request.numberOfImages = 3]_vars

\* The text-to-image call is being issued with the prompt "P" while the store
\* holds an image that is not selected.
C3_Witness ==
  /\ \E id \in CharSlots : Present(id)
  /\ \E k \in DOMAIN calls :
       /\ calls[k].at = "call"
       /\ calls[k].request.api = "generateImages"
       /\ calls[k].request.prompt = <<"P">>
       /\ calls[k].request.numberOfImages = 3

\* C4: whenever the submit control is disabled it is enabled again later,
\* given that the remote call returns or throws.
C4_Reenabled == disabled ~> ~disabled

\* A request whose call threw a value that is no Error has ended: the generic
\* error is shown and the control is enabled.
C4_Witness ==
  /\ ~disabled
  /\ calls = <<>>
  /\ gallery = <<ErrorNode(genericError)>>

\* C5: at most one request exists at any time, and the submit control is
\* disabled as long as one does.
C5_OneInFlight ==
  /\ Len(calls) <= 1
  /\ calls # <<>> => disabled

\* A text-to-image request is awaited; since it was issued the user has
\* filled and checked a slot, and a file read is outstanding.
C5_Witness ==
  /\ Len(calls) = 1
  /\ calls[1].at = "await"
  /\ calls[1].api = "generateImages"
  /\ \E id \in CharSlots : checkbox[id] /\ Present(id)
  /\ pendingReads # <<>>
  /\ disabled

\* C8: when a composition response arrives, the gallery gets one item per
\* inline-binary part and no error if there is such a part; otherwise the
\* error shown is the text parts joined, or the fallback when there is no
\* text, and no item is rendered.
C8_CompositionResult ==
  [][\A k \in DOMAIN calls : \A response \in GenerateContentResponses :
       ( /\ calls[k].at = "await"
         /\ calls[k].api = "generateContent"
         /\ resumeAfterAwait(k, Fulfilled(response)) ) =>
         LET inline == InlineParts(response)
             text   == join(TextParts(response), <<" ">>)
         IN IF Len(inline) > 0
            THEN /\ Len(gallery') = Len(inline)
                 /\ \A n \in DOMAIN inline :
                      /\ gallery'[n].class = <<"gallery-item">>
                      /\ gallery'[n].src =
                           <<"data:">> \o inline[n].inlineData.mimeType
                           \o <<";base64,">> \o inline[n].inlineData.data
            ELSE gallery' =
                   <<ErrorNode(IF text = <<>> THEN noImageFallback ELSE text)>>
      ]_vars

\* C9: when a request fails, the gallery is left with the error message as
\* its only child, and the submit control is enabled with no handler running.
C9_ErrorReplacesGallery ==
  [][\A k \in DOMAIN calls :
       calls[k].at = "await" =>
         \A settled \in Settlements(calls[k].api) :
           (Failed(calls[k].api, settled) /\ resumeAfterAwait(k, settled)) =>
             /\ Len(gallery') = 1
             /\ gallery'[1].class = <<"message", "error">>
             /\ Head(gallery'[1].html) = "Error: "
             /\ ~disabled'
             /\ \A j \in DOMAIN calls' : calls'[j].at # "call"]_vars

\* The model refused: its text is shown as the error and the control is
\* enabled.
C9_Witness ==
  /\ gallery = <<ErrorNode(refusalPart.text)>>
  /\ ~disabled
  /\ calls = <<>>

\* C10: the text of a composition call contains the background instruction
\* exactly when hasBg is true, then as its first instruction; for a selection
\* of the background alone it has no character instruction.
C10_BackgroundInstruction ==
  \A k \in DOMAIN calls :
    (calls[k].at = "call" /\ calls[k].request.api = "generateContent") =>
      LET parts    == calls[k].request.parts
          text     == parts[Len(parts)].text
          selected == getSelectedImages
          hasBackground == hasBgOf(selected)
      IN /\ Contains(text, bgInstruction[1]) <=> hasBackground
         /\ hasBackground => Head(text) = bgInstruction[1]
         /\ (hasBackground /\ Len(selected) = 1) =>
              /\ ~Contains(text, "Integrate the ")
              /\ ~Contains(text, "Combine the ")
              /\ ~Contains(text, onceInstruction[1])

\* A composition call is being issued for the background alone.
C10_Witness ==
  /\ Present(bgId)
  /\ Len(getSelectedImages) = 1
  /\ \E k \in DOMAIN calls :
       calls[k].at = "call" /\ calls[k].request.api = "generateContent"

\* The character slots that are checked and hold an image.
CheckedPresent == {id \in CharSlots : checkbox[id] /\ Present(id)}

\* The text part of a composition request.
TextOf(request) == request.parts[Len(request.parts)].text

PositionsIn(str, token) == {n \in DOMAIN str : str[n] = token}

\* C11: the text of a composition call issued with N > 0 characters checked
\* and present has one character instruction: "Combine the N character(s) from
\* the reference images ..." without a background, "Integrate the N
\* character(s) from the other reference images ..." with one, "character" for
\* N = 1 only, and the no-duplication instruction right after it; with N = 0
\* it has neither.
C11_CharacterInstruction ==
  \A k \in DOMAIN calls :
    (calls[k].at = "call" /\ calls[k].request.api = "generateContent") =>
      LET text == TextOf(calls[k].request)
          N    == Cardinality(CheckedPresent)
          noun == IF N = 1 THEN "character" ELSE "characters"
          expected ==
            IF Present(bgId)
            THEN <<"Integrate the ", ToString(N), " ", noun,
                   " from the other reference images into the background scene.">>
            ELSE <<"Combine the ", ToString(N), " ", noun,
                   " from the reference images into a single cohesive scene based on the text prompt.">>
          unexpected == IF Present(bgId) THEN "Combine the " ELSE "Integrate the "
          once ==
            "Crucially, ensure each distinct character appears only once in the final image and that no characters are omitted or duplicated."
      IN IF N > 0
         THEN /\ Cardinality(PositionsIn(text, expected[1])) = 1
              /\ PositionsIn(text, unexpected) = {}
              /\ Cardinality(PositionsIn(text, once)) = 1
              /\ \A p \in PositionsIn(text, expected[1]) :
                   /\ p + 6 <= Len(text)
                   /\ SubSeq(text, p, p + 6) = expected \o <<" ", once>>
         ELSE /\ PositionsIn(text, "Combine the ") = {}
              /\ PositionsIn(text, "Integrate the ") = {}
              /\ PositionsIn(text, once) = {}

\* A composition call is being issued for two characters and no background.
C11_Witness ==
  /\ ~Present(bgId)
  /\ Cardinality(CheckedPresent) = 2
  /\ \E k \in DOMAIN calls :
       /\ calls[k].at = "call"
       /\ calls[k].request.api = "generateContent"
       /\ Contains(TextOf(calls[k].request), "Combine the ")
       /\ Contains(TextOf(calls[k].request), "characters")

\* C12: the request of a submit with a non-empty selection carries one
\* image part per selected image, in selection order, with that image's
\* payload and MIME type, then one text part, and the text ends with the
\* sentence fixing the aspect ratio to the value of the selector at the submit.
C12_PartsAndRatio ==
  [][\A prompt \in Prompts, aspectRatio \in ChosenRatios :
       (generateAndDisplayImages(prompt, aspectRatio)
        /\ Len(getSelectedImages) > 0) =>
         LET selected == getSelectedImages
             request  == calls'[Len(calls')].request
             parts    == request.parts
             text     == parts[Len(parts)].text
         IN /\ request.api = "generateContent"
            /\ Len(parts) = Len(selected) + 1
            /\ \A n \in DOMAIN selected :
                 /\ DOMAIN parts[n] = {"inlineData"}
                 /\ parts[n].inlineData.data = selected[n].base64
                 /\ parts[n].inlineData.mimeType = selected[n].mimeType
            /\ DOMAIN parts[Len(parts)] = {"text"}
            /\ Len(text) >= 3
            /\ SubSeq(text, Len(text) - 2, Len(text)) =
                 <<"\n\nFinally, the image must have a ", aspectRatio,
                   " aspect ratio.">>]_vars

\* A composition call is being issued for character slot 1 alone: one image
\* part with the payload of char1, and a text ending with the 16:9 sentence.
C12_Witness ==
  /\ ~Present(bgId)
  /\ CheckedPresent = {"char1"}
  /\ \E k \in DOMAIN calls :
       /\ calls[k].at = "call"
       /\ calls[k].request.api = "generateContent"
       /\ Len(calls[k].request.parts) = 2
       /\ calls[k].request.parts[1].inlineData.data = referenceImages["char1"].base64
       /\ LET text == TextOf(calls[k].request)
          IN text[Len(text) - 1] = "16:9"

\* The result list displayImages is given when a call to api is fulfilled
\* with response: the generated images, or the inline-binary parts as images.
ResultListOf(api, response) ==
  IF api = "generateImages"
  THEN (IF response.generatedImages = undefined THEN <<>>
        ELSE response.generatedImages.list)
  ELSE LET inline == InlineParts(response)
       IN [n \in DOMAIN inline |->
             [image |-> [imageBytes |-> inline[n].inlineData.data,
                         mimeType |-> inline[n].inlineData.mimeType]]]

\* The 1-based positions of the entries of list that carry image bytes.
WithBytes(list) ==
  {k \in DOMAIN list :
     /\ list[k].image # undefined
     /\ list[k].image.imageBytes # undefinedStr
     /\ list[k].image.imageBytes # <<>>}

\* The n-th smallest member of a set of numbers.
NthOf(S, n) == CHOOSE k \in S : Cardinality({j \in S : j < k}) = n - 1

\* The subtype of a MIME type: the tokens between its first "/" and the next,
\* jpeg when the type is missing, has no "/", or has nothing after it.
SubtypeOf(mimeType) ==
  LET type  == IF mimeType = undefinedStr \/ mimeType = <<>>
               THEN <<"image", "/", "jpeg">> ELSE mimeType
      slash == IndexOf(type, "/", 1)
      next  == IF slash = 0 THEN 0 ELSE IndexOf(type, "/", slash + 1)
      sub   == IF slash = 0 THEN <<>>
               ELSE SubSeq(type, slash + 1,
                           IF next = 0 THEN Len(type) ELSE next - 1)
  IN IF sub = <<>> THEN <<"jpeg">> ELSE sub

\* C13: when a request is fulfilled with a non-empty result list, the gallery
\* gets one item per entry with image bytes, in order, and none for the
\* others; the item of the entry at 1-based position k has the file name
\* generated-image-k.<ext> and the alt text numbered k, where ext is the
\* subtype of the entry's MIME type, jpeg when that is missing or has none.
C13_ItemsAndNames ==
  [][\A c \in DOMAIN calls :
       calls[c].at = "await" =>
         \A settled \in Settlements(calls[c].api) :
           ( /\ settled.kind = "fulfilled"
             /\ Len(ResultListOf(calls[c].api, settled.value)) > 0
             /\ resumeAfterAwait(c, settled) ) =>
             LET list  == ResultListOf(calls[c].api, settled.value)
                 shown == WithBytes(list)
             IN /\ Len(gallery') = Cardinality(shown)
                /\ \A n \in DOMAIN gallery' :
                     LET k == NthOf(shown, n)
                     IN /\ gallery'[n].class = <<"gallery-item">>
                        /\ gallery'[n].download =
                             <<"generated-image-", ToString(k), ".">>
                             \o SubtypeOf(list[k].image.mimeType)
                        /\ gallery'[n].alt = <<"Generated Image ", ToString(k)>>
      ]_vars

\* The result list PNG, entry without image, bytes without type has been
\* rendered: two items, the second one numbered 3 and named .jpeg.
C13_Witness ==
  /\ Len(gallery) = 2
  /\ gallery[1].class = <<"gallery-item">>
  /\ gallery[1].download = <<"generated-image-", "1", ".", "png">>
  /\ gallery[2].download = <<"generated-image-", "3", ".", "jpeg">>
  /\ gallery[2].alt = <<"Generated Image ", "3">>
  /\ calls = <<>>

\* C14: when a text-to-image request is fulfilled with an undefined or an
\* empty result list, the gallery is left with the neutral "no images" message
\* as its only child in place of what it held (the progress message): no
\* item, no error message, and the submit control is enabled.
C14_NoImagesMessage ==
  [][\A c \in DOMAIN calls :
       (calls[c].at = "await" /\ calls[c].api = "generateImages") =>
         \A response \in GenerateImagesResponses :
           ( /\ Len(ResultListOf("generateImages", response)) = 0
             /\ resumeAfterAwait(c, Fulfilled(response)) ) =>
             /\ gallery' =
                  <<[class |-> <<"message">>,
                     html |-> <<"No images were generated or the response was empty.">>]>>
             /\ gallery # <<>>
             /\ ~disabled'
             /\ calls' = <<>>]_vars

\* The "no images" message is shown, the control is enabled and no request
\* is left.
C14_Witness ==
  /\ Len(gallery) = 1
  /\ gallery[1].html = noImagesMessage
  /\ gallery[1].class = <<"message">>
  /\ ~disabled
  /\ calls = <<>>

\* C15: when a composition call is issued, hasBackground is true exactly
\* when the bg slot holds an image, and then the first selected image is the
\* stored background; numCharacters is the number of character slots that are
\* checked and hold an image, which is the selection length less one with a
\* background and the selection length without; a character image in first
\* place is not taken for the background.
C15_BackgroundAndCount ==
  \A k \in DOMAIN calls :
    (calls[k].at = "call" /\ calls[k].request.api = "generateContent") =>
      LET selected      == getSelectedImages
          hasBackground == hasBgOf(selected)
          numCharacters == numCharactersOf(selected)
      IN /\ Len(selected) > 0
         /\ hasBackground <=> Present(bgId)
         /\ hasBackground => selected[1].ref = bgId
         /\ numCharacters = Cardinality(CheckedPresent)
         /\ numCharacters =
              IF Present(bgId) THEN Len(selected) - 1 ELSE Len(selected)
         /\ selected[1].ref \in CharSlots => ~hasBackground
         /\ Contains(TextOf(calls[k].request),
                     "Use the first provided image as the main background. Critically, you must remove any people from this image, using only the scenery as the background for the final composition.")
              <=> Present(bgId)

\* A composition call is being issued with a character image in first place:
\* no background, three characters checked and present.
C15_Witness ==
  /\ ~Present(bgId)
  /\ Cardinality(CheckedPresent) = 3
  /\ getSelectedImages[1].ref \in CharSlots
  /\ \E k \in DOMAIN calls :
       calls[k].at = "call" /\ calls[k].request.api = "generateContent"

\* C16: once no read of slot s is outstanding and every read has succeeded,
\* s holds the payload and the MIME type of the file chosen last for it (the
\* file its file input shows), in whatever order the reads completed.
C16_LastChosenWins ==
  \A s \in Slots :
    (fileInput[s] # <<>> /\ ReadsOf(s) = {}) =>
      /\ Present(s)
      /\ referenceImages[s].base64 = fileInput[s][1].data
      /\ referenceImages[s].mimeType = fileInput[s][1].type

\* C17: a slot s that is absent with an empty file input (it was removed, or
\* never filled, and no file has been chosen for it since) stays absent and
\* out of the selection in every step that chooses no file for it; the
\* completion of a read started before the removal does not fill it again.
C17_RemovedStaysAbsent ==
  [][\A s \in Slots :
       (~Present(s) /\ fileInput[s] = <<>> /\ fileInput'[s] = <<>>) =>
         /\ referenceImages'[s] = null
         /\ PositionsOf(getSelectedImages', s) = {}]_vars

\* C18: the text of a composition call is never the bare prompt with the
\* aspect-ratio sentence: at least one instruction was emitted, and the text
\* is the instructions, a blank line, Here is the creative brief: "<prompt>",
\* a blank line, and the aspect-ratio sentence.
C18_AlwaysWrapped ==
  [][\A prompt \in Prompts, aspectRatio \in ChosenRatios :
       (generateAndDisplayImages(prompt, aspectRatio)
        /\ Len(getSelectedImages) > 0) =>
         LET text  == TextOf(calls'[Len(calls')].request)
             ratio == <<"\n\nFinally, the image must have a ", aspectRatio,
                        " aspect ratio.">>
             brief == <<"\n\nHere is the creative brief: \"">> \o prompt
                      \o <<"\"">>
             tail  == brief \o ratio
             lead  == Len(text) - Len(tail)
         IN /\ Len(instructionsOf(getSelectedImages)) > 0
            /\ text # prompt \o ratio
            /\ lead >= 1
            /\ SubSeq(text, lead + 1, Len(text)) = tail
            /\ Head(text) \in
                 {"Use the first provided image as the main background. Critically, you must remove any people from this image, using only the scenery as the background for the final composition.",
                  "Combine the "}
            /\ \A n \in 1..lead : text[n] # "\n\nHere is the creative brief: \""
      ]_vars

\* A composition call is being issued for one character and no background:
\* its text starts with the Combine instruction and wraps the prompt "P".
C18_Witness ==
  /\ ~Present(bgId)
  /\ Cardinality(CheckedPresent) = 1
  /\ \E k \in DOMAIN calls :
       /\ calls[k].at = "call"
       /\ calls[k].request.api = "generateContent"
       /\ LET text == TextOf(calls[k].request)
          IN /\ Head(text) = "Combine the "
             /\ \E n \in DOMAIN text :
                  /\ n + 2 <= Len(text)
                  /\ SubSeq(text, n, n + 2) =
                       <<"\n\nHere is the creative brief: \"", "P", "\"">>

\* What slot t shows and holds.
SlotState(t) == <<referenceImages[t], previewSrc[t], hasImage[t], fileInput[t]>>

\* C19: the completion of a read for slot s changes the stored value of s
\* only: every other slot and all four checkboxes stay as they were. A removal
\* of s changes s and, for a character slot, its own checkbox only. Neither
\* changes the submit control, the gallery or a request in flight.
C19_SlotOperationsLocal ==
  [][/\ \A i \in DOMAIN pendingReads :
          readerOnload(i) =>
            LET s == pendingReads[i].id
            IN /\ \A t \in Slots \ {s} : SlotState(t)' = SlotState(t)
               /\ referenceImages'[s] # null
               /\ fileInput'[s] = fileInput[s]
               /\ checkbox' = checkbox
               /\ disabled' = disabled
               /\ gallery' = gallery
               /\ calls' = calls
     /\ \A s \in Slots :
          handleRemoveImage(s) =>
            /\ \A t \in Slots \ {s} : SlotState(t)' = SlotState(t)
            /\ referenceImages'[s] = null
            /\ \A t \in CharSlots \ {s} : checkbox'[t] = checkbox[t]
            /\ disabled' = disabled
            /\ gallery' = gallery
            /\ calls' = calls
            /\ pendingReads' = pendingReads]_vars

\* A text-to-image request is awaited and the background is present: its read
\* completed after the submit. A checked character is present beside it.
C19_Witness ==
  /\ Len(calls) = 1
  /\ calls[1].at = "await"
  /\ calls[1].api = "generateImages"
  /\ Present(bgId)
  /\ disabled
  /\ \E id \in CharSlots : checkbox[id] /\ Present(id)

====
